---- MODULE Spec2Model ----
(***************************************************************************)
(* Model of the heating-rate fitting script (src/fit_heating_rates.py) and  *)
(* of the chemical-potential root find of src/bulkvisctrap_class.py.        *)
(*                                                                          *)
(* Numbers are fixed point: frequencies in tenths of a kHz, Vpp in          *)
(* thousandths of a volt, beta in units of 1e-9, times in ms.  A float NaN  *)
(* is the value NaN, a NaN in a text cell is the value NaNs.                 *)
(***************************************************************************)
EXTENDS Integers, Sequences, FiniteSets, TLC

VARIABLES
    env,             \* which data folder the executions read ("single" or "history")
    nexec,           \* number of executions of the script started so far
    pc,              \* position of the current execution in the script
    files,           \* the list files (line 76), the part not yet looped over
    dat,             \* the file of the current iteration of the file loop
    run_param_sets,  \* the part of run_param_sets the run loop has not done yet
    runs,            \* the list runs
    exc,             \* the exception that ended the execution, "none" if none
    pkl,             \* the pickled results table on disk, NoFile if there is none
    old_pkl,         \* the table that was on disk when the execution started
    call             \* a direct call of one function: its argument and result

vars == <<env, nexec, pc, files, dat, run_param_sets, runs, exc, pkl, old_pkl, call>>

----------------------------------------------------------------------------
(* Values *)

NaN == 0 - 1
NaNs == "NaN"
NoColumn == "none"
NoFile == [exists |-> FALSE, t |-> <<>>]
NoCall == [fn |-> "none"]
NoDat ==
    [filename |-> "none", freq |-> NaN, Vpp |-> NaN, ms_param |-> NaNs, ms_param2 |-> NaNs,
     acol |-> NoColumn, bcol |-> NoColumn, has_beta |-> FALSE, beta_val |-> NaN, ssr |-> 0,
     rows |-> <<>>, meas |-> <<>>]

Unset == 0 - 2
(* a value that a curve_fit gave *)
FromFit == 0 - 3

max_time == 120
linear_params == 2
beta_default == 18339
colors == 8

MaxExecs == 2
MaxPoints == 3

(* 2024-03-01, the date before which Vpp is halved *)
FuncGenDate == 20240301

----------------------------------------------------------------------------
(* Sequences *)

Range(s) == {s[i] : i \in 1..Len(s)}

RECURSIVE unique(_)
(* pandas Series.unique: the distinct values in order of first appearance *)
unique(s) ==
    IF s = <<>> THEN <<>>
    ELSE LET r == unique(SubSeq(s, 1, Len(s) - 1))
         IN IF s[Len(s)] \in Range(r) THEN r ELSE Append(r, s[Len(s)])

----------------------------------------------------------------------------
(* The data folder: a .dat file with its row of heating_metadata.xlsx.      *)
(* A file has the columns time, beta (unless it is an old file) and up to    *)
(* two further columns named acol and bcol; a row gives their values.        *)

FileNames == {"2024-02-20_B", "2024-04-04_C"}
DateOf(fn) == IF fn = "2024-02-20_B" THEN 20240220 ELSE 20240404
RunOf(fn) == IF fn = "2024-02-20_B" THEN "B" ELSE "C"

Vals == {12, 16}
MetaVals == {NaN, 12}
BetaVals == {20000}
(* the sum of the squared normalised residuals of the energy fit *)
SSRs == {12}
ANames == {NoColumn, "freq", "field"}
BNames == {NoColumn, "amp"}

(* the scan times of one group of shots: n points within max_time, or one   *)
(* point beyond it                                                          *)
TimeSets == {{30 * k : k \in 1..n} : n \in 0..MaxPoints} \cup {{max_time + 10}}

(* the averaged meanEtot_kHz and N of the shots at each scan time *)
Times == UNION TimeSets
ShotValues == [t \in Times |-> [E |-> 10 + t \div 10, N |-> 100 - t \div 10]]

RowKey(r) == (r.a * 100 + r.b) * 1000 + r.time

RECURSIVE SortRows(_)
SortRows(S) ==
    IF S = {} THEN <<>>
    ELSE LET m == CHOOSE x \in S : \A y \in S : RowKey(x) <= RowKey(y)
         IN <<m>> \o SortRows(S \ {m})

ValsOf(col) == IF col = NoColumn THEN {0} ELSE Vals

(* every table of shots: each pair of column values with one of the sets T, *)
(* the rows in ascending order                                              *)
DataSets(acol, bcol, T) ==
    LET P == ValsOf(acol) \X ValsOf(bcol)
    IN {SortRows(UNION {{[time |-> t, a |-> p[1], b |-> p[2]] : t \in g[p]} : p \in P})
          : g \in [P -> T]}

NamesOf(col) == {NaNs} \cup ({col} \ {NoColumn})

(* ms_param and ms_param2 name a column of the file when they are filled in *)
FilesWith(A, B, T) ==
    UNION {UNION {
        [filename : FileNames, freq : MetaVals, Vpp : MetaVals,
         ms_param : NamesOf(acol), ms_param2 : NamesOf(bcol),
         acol : {acol}, bcol : {bcol}, has_beta : BOOLEAN, beta_val : BetaVals,
         ssr : SSRs, rows : DataSets(acol, bcol, T), meas : {ShotValues}]
      : bcol \in B} : acol \in A}

(* a scan over field is a single multiscan, one over freq may have amp as a  *)
(* second                                                                   *)
Files ==
    FilesWith(ANames \ {"field"}, BNames, TimeSets)
        \cup FilesWith({"field"}, {NoColumn}, TimeSets)

(* the folder of the executions that follow one another: one column, three  *)
(* tables                                                                   *)
HistoryFiles ==
    {f \in Files : /\ f.bcol = NoColumn /\ f.acol # "field" /\ f.Vpp # NaN
                   /\ ~f.has_beta
                   /\ \A r \in Range(f.rows) : r.time <= max_time
                   /\ Len(f.rows) \in {2, MaxPoints, 2 * MaxPoints}}

Pool(e) == IF e = "single" THEN Files ELSE HistoryFiles

(* the columns of the .dat file and the value of one in a row *)
Columns(f) ==
    {"time"} \cup ({f.acol, f.bcol} \ {NoColumn}) \cup (IF f.has_beta THEN {"beta"} ELSE {})

Cell(f, r, name) ==
    CASE name = "time" -> r.time
      [] name = "beta" -> f.beta_val
      [] name = f.acol -> r.a
      [] name = f.bcol -> r.b

(* run.data[name].values, for a name that is a column *)
Column(run, rows, name) == [i \in 1..Len(rows) |-> Cell(run, rows[i], name)]

----------------------------------------------------------------------------
(* Results of a function that may raise *)

Ok(run) == [exc |-> "none", run |-> run]
Raise(e, run) == [exc |-> e, run |-> run]

(* Data(file + ".dat", metadata = metadata[file]): the metadata row becomes *)
(* attributes, the table becomes data                                       *)
Data(f) ==
    [filename |-> f.filename, date |-> DateOf(f.filename), run |-> RunOf(f.filename),
     freq |-> f.freq, Vpp |-> f.Vpp, ms_param |-> f.ms_param, ms_param2 |-> f.ms_param2,
     acol |-> f.acol, bcol |-> f.bcol, has_beta |-> f.has_beta, beta_val |-> f.beta_val,
     ssr |-> f.ssr, data |-> f.rows, meas |-> f.meas, avg_data |-> <<>>,
     fit_func |-> "none", Ei |-> Unset, N |-> Unset, heating |-> Unset, loss_rate |-> Unset,
     dof |-> Unset, chi_sq |-> Unset, fitted |-> <<>>, beta |-> Unset, name |-> <<>>]

(* run.group_by_mean(run.param): one averaged point per scan time, ascending *)
RECURSIVE SortTimes(_)
SortTimes(S) ==
    IF S = {} THEN <<>>
    ELSE LET m == CHOOSE x \in S : \A y \in S : x <= y
         IN <<m>> \o SortTimes(S \ {m})

group_by_mean(run) ==
    [run EXCEPT !.avg_data = SortTimes({run.data[i].time : i \in 1..Len(run.data)})]

RECURSIVE fix_loop(_, _, _, _)
fix_loop(run, attr, attr_names, i) ==
    IF i > Len(attr_names) THEN Ok(run)
    ELSE IF attr_names[i] \notin Columns(run)
         THEN fix_loop(run, attr, attr_names, i + 1)      \* KeyError, caught
    ELSE IF run.data = <<>> THEN Raise("IndexError", run)  \* .values[0] of no rows
    ELSE Ok([run EXCEPT ![attr] = Column(run, run.data, attr_names[i])[1]])

(* the names tried from the last to the first *)
fix_attribute_last(run, attr, attr_names) ==
    IF run[attr] # NaN THEN Ok(run)
    ELSE fix_loop(run, attr,
                  [i \in 1..Len(attr_names) |-> attr_names[Len(attr_names) + 1 - i]], 1)

fix_attribute(run, attr, attr_names) ==
    IF run[attr] # NaN THEN Ok(run) ELSE fix_loop(run, attr, attr_names, 1)

(* library.chi_sq(y, yfit, yerr, dof): the residual sum over dof *)
chi_sq(ssr, dof) ==
    IF dof = 0 THEN [exc |-> "ZeroDivisionError", val |-> Unset]
    ELSE [exc |-> "none", val |-> ssr \div dof]

Fitted == <<"ToTF", "EF", "T", "N", "loss_rate", "Bamp", "A", "Ei", "heating", "rate">>

(* run.fit_func = settings['fit'], line 167 *)
SetFitFunc(run) == [run EXCEPT !.fit_func = "linear"]

(* the offsets and slopes that the fits of lines 183-228 give *)
FitValues(run) ==
    [run EXCEPT !.Ei = FromFit, !.N = FromFit, !.heating = FromFit, !.loss_rate = FromFit,
                !.fitted = Fitted]

(* the ZeroDivisionError of chi_sq not caught *)
fit_analysis_nocatch(run) ==
    LET n == Len(run.avg_data)
        r == SetFitFunc(run)
    IN IF n = 0 THEN Raise("ValueError", r)
       ELSE IF n < linear_params THEN Raise("TypeError", r)
       ELSE LET dof == n - linear_params
                c == chi_sq(r.ssr, dof)
            IN IF c.exc # "none" THEN Raise(c.exc, [r EXCEPT !.dof = dof])
               ELSE Ok(FitValues([r EXCEPT !.dof = dof, !.chi_sq = c.val]))

fit_analysis(run) ==
    LET n == Len(run.avg_data)
        r == SetFitFunc(run)
    IN IF n = 0 THEN Raise("ValueError", r)              \* curve_fit: no data
       ELSE IF n < linear_params THEN Raise("TypeError", r)    \* fewer points than parameters
       ELSE LET dof == n - linear_params
                c == chi_sq(r.ssr, dof)
            IN Ok(FitValues([r EXCEPT !.dof = dof,
                                      !.chi_sq = IF c.exc = "ZeroDivisionError" THEN 1
                                                 ELSE c.val]))

MinOf(S) == CHOOSE x \in S : \A y \in S : x <= y
MaxOf(S) == CHOOSE x \in S : \A y \in S : x >= y

(* rise over run, relative to the first value: (last/first - 1)/deltax or   *)
(* (last - first)/deltax/first, in millionths per ms                        *)
RiseOverRun(first, last, deltax) == ((last - first) * 1000000) \div (first * deltax)

(* initial values from the point of the largest scan parameter *)
analysis_from_last_point(run) ==
    IF run.avg_data = <<>> THEN Raise("TypeError", run)
    ELSE LET df1 == run.meas[MaxOf(Range(run.avg_data))]
             df2 == run.meas[MinOf(Range(run.avg_data))]
             deltax == MaxOf(Range(run.avg_data)) - MinOf(Range(run.avg_data))
         IN  IF deltax = 0 \/ df1.E = 0 \/ df2.E = 0 \/ df1.N = 0 \/ df2.N = 0
             THEN Raise("ZeroDivisionError", run)
             ELSE Ok([run EXCEPT !.Ei = df1.E, !.N = df1.N,
                                 !.heating = RiseOverRun(df1.E, df2.E, deltax),
                                 !.loss_rate = RiseOverRun(df1.N, df2.N, deltax),
                                 !.dof = 0, !.chi_sq = 1, !.fitted = Fitted])

(* lines 230-273: df1 is the point of the smallest run.param, df2 that of   *)
(* the largest; float() of no row is a TypeError, a division of floats by   *)
(* zero a ZeroDivisionError                                                 *)
analysis_for_dof_equals_two(run) ==
    IF run.avg_data = <<>> THEN Raise("TypeError", run)
    ELSE LET df1 == run.meas[MinOf(Range(run.avg_data))]
             df2 == run.meas[MaxOf(Range(run.avg_data))]
             deltax == MaxOf(Range(run.avg_data)) - MinOf(Range(run.avg_data))
         IN  IF deltax = 0 \/ df1.E = 0 \/ df2.E = 0 \/ df1.N = 0 \/ df2.N = 0
             THEN Raise("ZeroDivisionError", run)
             ELSE Ok([run EXCEPT !.Ei = df1.E, !.N = df1.N,
                                 !.heating = RiseOverRun(df1.E, df2.E, deltax),
                                 !.loss_rate = RiseOverRun(df1.N, df2.N, deltax),
                                 !.dof = 0, !.chi_sq = 1, !.fitted = Fitted])

(* lines 350-356: a run of two averaged points is not fitted *)
analyse(run) ==
    IF Len(run.avg_data) = 2 THEN analysis_for_dof_equals_two(run) ELSE fit_analysis(run)

----------------------------------------------------------------------------
(* The file loop and the run loop *)

Bind(x, F(_)) == IF x.exc # "none" THEN x ELSE F(x.run)

IsMultiscan(f) == f.ms_param # NaNs                      \* dat.ms_param == dat.ms_param
IsMultiscan2(f) == IsMultiscan(f) /\ f.ms_param2 # NaNs

Dummy == <<0>>

(* run_param_sets without unique(): one set for each row *)
ParamSets_per_row(f) ==
    IF ~IsMultiscan(f) THEN <<Dummy, Dummy>>
    ELSE [i \in 1..Len(f.rows) |->
            IF IsMultiscan2(f)
            THEN <<Cell(f, f.rows[i], f.ms_param), Cell(f, f.rows[i], f.ms_param2)>>
            ELSE <<Cell(f, f.rows[i], f.ms_param)>>]

(* run_param_sets of a file: lines 289-312 *)
ParamSets(f) ==
    IF ~IsMultiscan(f) THEN <<Dummy, Dummy>>
    ELSE LET ms_vals == unique(Column(f, f.rows, f.ms_param))
             ms2_vals(v) ==
                 unique(Column(f, SelectSeq(f.rows, LAMBDA r : Cell(f, r, f.ms_param) = v),
                               f.ms_param2))
             pairs[i \in 0..Len(ms_vals)] ==
                 IF i = 0 THEN <<>>
                 ELSE pairs[i - 1] \o [j \in 1..Len(ms2_vals(ms_vals[i])) |->
                                          <<ms_vals[i], ms2_vals(ms_vals[i])[j]>>]
         IN IF ~IsMultiscan2(f) THEN [i \in 1..Len(ms_vals) |-> <<ms_vals[i]>>]
            ELSE pairs[Len(ms_vals)]

strftime(date) == <<date \div 10000, (date \div 100) % 100, date % 100>>

(* round x / 10 to the nearest integer, a tie to the even one *)
Round10(x) ==
    LET q == x \div 10
        r == x % 10
    IN IF r > 5 \/ (r = 5 /\ q % 2 = 1) THEN q + 1 ELSE q

format_0f(freq) == IF freq = NaN THEN NaN ELSE Round10(freq)   \* "{:.0f}", freq in tenths
format_2f(Vpp) == IF Vpp = NaN THEN NaN ELSE Round10(Vpp)       \* "{:.2f}", Vpp in thousandths

run_name(run) == <<run.date, run.run, format_0f(run.freq), format_2f(run.Vpp)>>

(* the KeyError of a missing beta column not caught *)
get_beta_nocatch(run) ==
    IF "beta" \in Columns(run) THEN Ok([run EXCEPT !.beta = run.beta_val])
    ELSE Raise("KeyError", run)

get_beta(run) ==
    IF "beta" \in Columns(run) THEN Ok([run EXCEPT !.beta = run.beta_val])
    ELSE Ok([run EXCEPT !.beta = beta_default])                  \* KeyError, caught

(* one pass of the run loop, up to the run that is appended: lines 315-378 *)
RunBody(f, run_params) ==
    LET r0 == Data(f)
        r1 == IF IsMultiscan(f)
              THEN [r0 EXCEPT !.data = SelectSeq(@, LAMBDA r :
                                          Cell(r0, r, r0.ms_param) = run_params[1])]
              ELSE [r0 EXCEPT !.ms_param = "nope"]
        r2 == IF IsMultiscan2(f)
              THEN [r1 EXCEPT !.data = SelectSeq(@, LAMBDA r :
                                          Cell(r1, r, r1.ms_param2) = run_params[2])]
              ELSE [r1 EXCEPT !.ms_param2 = "nada"]
        r3 == [r2 EXCEPT !.data = SelectSeq(@, LAMBDA r : ~(r.time > max_time))]
        r4 == group_by_mean(r3)
        x5 == fix_attribute(r4, "freq", <<"freq", "wigglefreq", "wiggle freq">>)
        x6 == Bind(x5, LAMBDA r : fix_attribute(r, "Vpp", <<"Vpp", "amp", "amplitude">>))
        x7 == Bind(x6, LAMBDA r :
                  Ok(IF r.date < FuncGenDate /\ r.Vpp # NaN
                     THEN [r EXCEPT !.Vpp = r.Vpp \div 2] ELSE r))
        x8 == Bind(x7, LAMBDA r : analyse(r))
        x9 == Bind(x8, LAMBDA r : get_beta(r))
    IN Bind(x9, LAMBDA r :
           LET d == [r EXCEPT !.date = strftime(r.date)]
           IN Ok([d EXCEPT !.name = run_name(d)]))

----------------------------------------------------------------------------
(* The results table: a sequence of rows, the row label in name.            *)
(* reindex, union and update as pandas 1.3 to 1.5 do them.                   *)

(* vars(run) without del_attr *)
ResultRow(run) ==
    [name |-> run.name, filename |-> run.filename, date |-> run.date, run |-> run.run,
     freq |-> run.freq, Vpp |-> run.Vpp, ms_param |-> run.ms_param,
     ms_param2 |-> run.ms_param2, dof |-> run.dof, chi_sq |-> run.chi_sq,
     beta |-> run.beta]

EmptyRow(name) ==
    [name |-> name, filename |-> NaNs, date |-> <<>>, run |-> NaNs,
     freq |-> NaN, Vpp |-> NaN, ms_param |-> NaNs, ms_param2 |-> NaNs,
     dof |-> NaN, chi_sq |-> NaN, beta |-> NaN]

Index(t) == [i \in 1..Len(t) |-> t[i].name]
Count(ix, n) == Cardinality({i \in 1..Len(ix) : ix[i] = n})
HasDuplicates(ix) == \E i, j \in 1..Len(ix) : i # j /\ ix[i] = ix[j]

(* the order of the labels, field by field; "nan" comes after the digits *)
NameLE(x, y) ==
    LET d(n) == (n[1][1] * 100 + n[1][2]) * 100 + n[1][3]
        l(n) == IF n[2] = "B" THEN 1 ELSE 2
        k(v) == IF v = NaN THEN 1000000 ELSE v
    IN \/ d(x) < d(y)
       \/ d(x) = d(y) /\ l(x) < l(y)
       \/ d(x) = d(y) /\ l(x) = l(y) /\ k(x[3]) < k(y[3])
       \/ d(x) = d(y) /\ l(x) = l(y) /\ k(x[3]) = k(y[3]) /\ k(x[4]) <= k(y[4])

RECURSIVE SortNames(_)
SortNames(S) ==
    IF S = {} THEN <<>>
    ELSE LET m == CHOOSE x \in S : \A y \in S : NameLE(x, y)
         IN <<m>> \o SortNames(S \ {m})

Max(a, b) == IF a >= b THEN a ELSE b

(* Index.union: every label as often as in the index that has it most       *)
(* often, sorted; the index itself when the two are equal or one is empty   *)
IndexUnion(a, b) ==
    IF a = b \/ b = <<>> THEN a
    ELSE IF a = <<>> THEN b
    ELSE LET ns == SortNames(Range(a) \cup Range(b))
             rep[i \in 0..Len(ns)] ==
                 IF i = 0 THEN <<>>
                 ELSE rep[i - 1] \o
                      [j \in 1..Max(Count(a, ns[i]), Count(b, ns[i])) |-> ns[i]]
         IN rep[Len(ns)]

RowOf(t, n) == t[CHOOSE i \in 1..Len(t) : t[i].name = n]

(* DataFrame.reindex(ix): the rows of t under the labels ix *)
reindex(t, ix) ==
    IF Index(t) = ix THEN [exc |-> "none", t |-> t]
    ELSE IF HasDuplicates(Index(t)) THEN [exc |-> "ValueError", t |-> t]
    ELSE [exc |-> "none",
          t |-> [i \in 1..Len(ix) |->
                    IF ix[i] \in Range(Index(t)) THEN RowOf(t, ix[i]) ELSE EmptyRow(ix[i])]]

(* a cell of other replaces the cell of this unless it is NaN *)
UpdateRow(this, other) ==
    [name |-> this.name,
     filename |-> IF other.filename = NaNs THEN this.filename ELSE other.filename,
     date |-> IF other.date = <<>> THEN this.date ELSE other.date,
     run |-> IF other.run = NaNs THEN this.run ELSE other.run,
     freq |-> IF other.freq = NaN THEN this.freq ELSE other.freq,
     Vpp |-> IF other.Vpp = NaN THEN this.Vpp ELSE other.Vpp,
     ms_param |-> IF other.ms_param = NaNs THEN this.ms_param ELSE other.ms_param,
     ms_param2 |-> IF other.ms_param2 = NaNs THEN this.ms_param2 ELSE other.ms_param2,
     dof |-> IF other.dof = NaN THEN this.dof ELSE other.dof,
     chi_sq |-> IF other.chi_sq = NaN THEN this.chi_sq ELSE other.chi_sq,
     beta |-> IF other.beta = NaN THEN this.beta ELSE other.beta]

(* DataFrame.update(other): other aligned with the labels of t, row by row *)
update(t, other) ==
    LET o == reindex(other, Index(t))
    IN IF o.exc # "none" THEN [exc |-> o.exc, t |-> t]
       ELSE [exc |-> "none", t |-> [i \in 1..Len(t) |-> UpdateRow(t[i], o.t[i])]]

(* the table of this execution written over the file *)
SaveResults_overwrite(loaded, rs) ==
    IF rs = <<>> THEN [exc |-> "KeyError", pkl |-> loaded]
    ELSE [exc |-> "none",
          pkl |-> [exists |-> TRUE, t |-> [i \in 1..Len(rs) |-> ResultRow(rs[i])]]]

(* the save section, lines 521-547: the table written, or the exception *)
SaveResults(loaded, rs) ==
    LET save_results == [i \in 1..Len(rs) |-> ResultRow(rs[i])]
    IN IF rs = <<>> THEN [exc |-> "KeyError", pkl |-> loaded]   \* set_index: no column name
       ELSE IF ~loaded.exists                                    \* FileNotFoundError, caught
       THEN [exc |-> "none", pkl |-> [exists |-> TRUE, t |-> save_results]]
       ELSE LET r == reindex(loaded.t, IndexUnion(Index(loaded.t), Index(save_results)))
                u == update(r.t, save_results)
            IN IF r.exc # "none" THEN [exc |-> r.exc, pkl |-> loaded]
               ELSE IF u.exc # "none" THEN [exc |-> u.exc, pkl |-> loaded]
               ELSE [exc |-> "none", pkl |-> [exists |-> TRUE, t |-> u.t]]

----------------------------------------------------------------------------
(* One execution of the script after another *)

Executions(e) == IF e = "single" THEN 1 ELSE IF e = "history" THEN MaxExecs ELSE 0

Ended == pc \in {"start", "done", "aborted_analysis", "aborted_plot", "aborted_save"}

AfterRuns(fs, sets) ==
    IF sets # <<>> THEN "runs" ELSE IF fs # <<>> THEN "files" ELSE "plot"

(* the script starts: files is the one file name written in line 76 *)
StartExecution ==
    /\ Ended
    /\ nexec < Executions(env)
    /\ \E f \in Pool(env) : files' = <<f>>
    /\ nexec' = nexec + 1
    /\ pc' = "files"
    /\ runs' = <<>>
    /\ exc' = "none"
    /\ dat' = NoDat
    /\ run_param_sets' = <<>>
    /\ old_pkl' = pkl
    /\ UNCHANGED <<env, pkl, call>>

(* for file in files: lines 285-312 *)
LoadFile ==
    /\ pc = "files"
    /\ files # <<>>
    /\ dat' = Head(files)
    /\ files' = Tail(files)
    /\ run_param_sets' = ParamSets(Head(files))
    /\ pc' = AfterRuns(files', run_param_sets')
    /\ UNCHANGED <<env, nexec, runs, exc, pkl, old_pkl, call>>

(* for run_params in run_param_sets: lines 315-378 *)
RunIteration ==
    /\ pc = "runs"
    /\ LET x == RunBody(dat, Head(run_param_sets))
       IN IF x.exc # "none"
          THEN /\ pc' = "aborted_analysis"
               /\ exc' = x.exc
               /\ UNCHANGED <<runs, run_param_sets>>
          ELSE /\ runs' = Append(runs, x.run)
               /\ run_param_sets' = Tail(run_param_sets)
               /\ pc' = AfterRuns(files, run_param_sets')
               /\ exc' = exc
    /\ UNCHANGED <<env, nexec, files, dat, pkl, old_pkl, call>>

(* the plots, lines 381-517: xlist of line 429 is bound only by a run that  *)
(* was fitted, among the first len(colors) runs                             *)
Plot ==
    /\ pc = "plot"
    /\ IF \E i \in 1..Len(runs) : i <= colors /\ Len(runs[i].avg_data) # 2
       THEN pc' = "save" /\ exc' = exc
       ELSE pc' = "aborted_plot" /\ exc' = "NameError"
    /\ UNCHANGED <<env, nexec, files, dat, run_param_sets, runs, pkl, old_pkl, call>>

(* the save section, lines 521-547 *)
Save ==
    /\ pc = "save"
    /\ LET r == SaveResults(pkl, runs)
       IN /\ pkl' = r.pkl
          /\ exc' = r.exc
          /\ pc' = IF r.exc = "none" THEN "done" ELSE "aborted_save"
    /\ UNCHANGED <<env, nexec, files, dat, run_param_sets, runs, old_pkl, call>>

Script == StartExecution \/ LoadFile \/ RunIteration \/ Plot \/ Save

InitScript(e) ==
    /\ env = e
    /\ nexec = 0
    /\ pc = "start"
    /\ files = <<>>
    /\ dat = NoDat
    /\ run_param_sets = <<>>
    /\ runs = <<>>
    /\ exc = "none"
    /\ pkl = NoFile
    /\ old_pkl = NoFile
    /\ call = NoCall

Init == InitScript("single")
Next == Script
Spec == Init /\ [][Next]_vars

InitHistory == InitScript("history")
SpecHistory == InitHistory /\ [][Next]_vars

----------------------------------------------------------------------------
(* Multiscans: claims C4 to C7 and C10, under Spec *)

FileLoopDone == pc \in {"plot", "save", "done", "aborted_plot", "aborted_save"}

(* the multiscan values a table of rows holds, as run_params would hold them *)
ParamsIn(f, rows) ==
    IF IsMultiscan2(f)
    THEN {<<Cell(f, rows[i], f.ms_param), Cell(f, rows[i], f.ms_param2)>> : i \in 1..Len(rows)}
    ELSE {<<Cell(f, rows[i], f.ms_param)>> : i \in 1..Len(rows)}

(* C4: when the file loop is over, the runs of a multiscan file are one for *)
(* each distinct ms_param value of its data (each pair of ms_param and      *)
(* ms_param2 values that occurs in one row, when both are named): no value  *)
(* or pair has two runs, none has no run, and a run holds the rows of its    *)
(* value or pair only.                                                      *)
C4_OneRunPerValue ==
    (FileLoopDone /\ IsMultiscan(dat)) =>
        /\ Len(runs) = Cardinality(ParamsIn(dat, dat.rows))
        /\ \A i \in 1..Len(runs) :
               /\ Cardinality(ParamsIn(dat, runs[i].data)) = 1
               /\ ParamsIn(dat, runs[i].data) \subseteq ParamsIn(dat, dat.rows)
        /\ \A i, j \in 1..Len(runs) :
               i # j => ParamsIn(dat, runs[i].data) # ParamsIn(dat, runs[j].data)

(* a double multiscan with two runs whose data lacks a pair of its values *)
C4_Witness ==
    /\ FileLoopDone
    /\ IsMultiscan2(dat)
    /\ Len(runs) = 2
    /\ \E v \in Vals, w \in Vals :
          /\ \E i \in 1..Len(dat.rows) : dat.rows[i].a = v
          /\ \E i \in 1..Len(dat.rows) : dat.rows[i].b = w
          /\ <<v, w>> \notin ParamsIn(dat, dat.rows)

(* C5: a file that is no multiscan has exactly one run when the file loop   *)
(* is over.                                                                 *)
C5_OneRunPerPlainFile ==
    (FileLoopDone /\ ~IsMultiscan(dat)) => Len(runs) = 1

(* C6: no two runs of a multiscan file have the same name.                  *)
C6_NamesUnique ==
    IsMultiscan(dat) =>
        \A i, j \in 1..Len(runs) : i # j => runs[i].name # runs[j].name

(* C7: no run in runs has an empty ms_param, ms_param2, freq or Vpp.        *)
C7_NoEmptyCell ==
    \A i \in 1..Len(runs) :
        /\ runs[i].ms_param # NaNs
        /\ runs[i].ms_param2 # NaNs
        /\ runs[i].freq # NaN
        /\ runs[i].Vpp # NaN

(* C10: every run in runs has the beta of its file's beta column, the        *)
(* default when the file has none, and no execution ends in the KeyError of *)
(* the missing column.                                                      *)
C10_Beta ==
    /\ \A i \in 1..Len(runs) :
          runs[i].beta = IF dat.has_beta THEN dat.beta_val ELSE beta_default
    /\ exc # "KeyError"

C10_Witness ==
    /\ ~dat.has_beta
    /\ runs # <<>>
    /\ runs[1].beta = beta_default

----------------------------------------------------------------------------
(* One call of fix_attribute, and one of fit_analysis *)

Pending == [exc |-> "pending"]

FixA == {NoColumn, "freq", "wigglefreq", "amp"}
FixB == {NoColumn, "wiggle freq", "Vpp", "amplitude"}
FixFiles ==
    {f \in FilesWith(FixA, FixB, {{}, {30}}) :
        f.filename = "2024-04-04_C" /\ f.ms_param = NaNs /\ f.ms_param2 = NaNs /\ ~f.has_beta}

AttrNameLists == {<<"freq", "wigglefreq", "wiggle freq">>, <<"Vpp", "amp", "amplitude">>}

FixCalls ==
    [fn : {"fix_attribute"}, run : {Data(f) : f \in FixFiles}, attr : {"freq", "Vpp"},
     attr_names : AttrNameLists, ret : {Pending}]

FitFiles == FilesWith({NoColumn, "freq"}, {NoColumn}, TimeSets)

FitCalls ==
    [fn : {"fit_analysis"},
     run : {[group_by_mean(Data(f)) EXCEPT !.ssr = x] : f \in FitFiles, x \in {0, 12, 24}},
     attr : {"none"}, attr_names : {<<>>}, ret : {Pending}]

InitCall(calls) ==
    /\ env = "call"
    /\ nexec = 0
    /\ pc = "call"
    /\ files = <<>>
    /\ dat = NoDat
    /\ run_param_sets = <<>>
    /\ runs = <<>>
    /\ exc = "none"
    /\ pkl = NoFile
    /\ old_pkl = NoFile
    /\ call \in calls

Return(ret) ==
    /\ call' = [call EXCEPT !.ret = ret]
    /\ pc' = "returned"
    /\ UNCHANGED <<env, nexec, files, dat, run_param_sets, runs, exc, pkl, old_pkl>>

CallFixAttribute ==
    /\ pc = "call"
    /\ call.fn = "fix_attribute"
    /\ Return(fix_attribute(call.run, call.attr, call.attr_names))

CallFitAnalysis ==
    /\ pc = "call"
    /\ call.fn = "fit_analysis"
    /\ Return(fit_analysis(call.run))

InitFix == InitCall(FixCalls)
NextFix == CallFixAttribute
SpecFix == InitFix /\ [][NextFix]_vars

InitFit == InitCall(FitCalls)
NextFit == CallFitAnalysis
SpecFit == InitFit /\ [][NextFit]_vars

(* the places in attr_names of the names that are columns of run.data *)
Hits(run, attr_names) == {i \in 1..Len(attr_names) : attr_names[i] \in Columns(run)}
FirstHit(run, attr_names) ==
    CHOOSE i \in Hits(run, attr_names) : \A j \in Hits(run, attr_names) : i <= j

FixReturned == pc = "returned" /\ call.fn = "fix_attribute"

(* C8, as amended: an attribute that is not NaN is left as it is; a NaN one *)
(* becomes the first value of the first name of attr_names that is a column *)
(* when run.data has a row, and the call raises IndexError when it has      *)
(* none; when no name is a column the attribute stays NaN and nothing is    *)
(* raised. Nothing else of run changes.                                     *)
C8_FixAttribute ==
    FixReturned =>
        LET r == call.run
            a == call.attr
            L == call.attr_names
        IN /\ r[a] # NaN => call.ret = Ok(r)
           /\ (r[a] = NaN /\ Hits(r, L) = {}) => call.ret = Ok(r)
           /\ (r[a] = NaN /\ Hits(r, L) # {} /\ r.data # <<>>) =>
                  call.ret = Ok([r EXCEPT ![a] = Cell(r, r.data[1], L[FirstHit(r, L)])])
           /\ (r[a] = NaN /\ Hits(r, L) # {} /\ r.data = <<>>) =>
                  call.ret.exc = "IndexError"

(* the first name is no column, two later ones are, and the data has rows *)
C8_Witness ==
    /\ FixReturned
    /\ call.run[call.attr] = NaN
    /\ Hits(call.run, call.attr_names) = {2, 3}
    /\ Len(call.run.data) > 1
    /\ call.ret.exc = "none"
    /\ call.ret.run[call.attr] # NaN

(* C8 as first stated: a NaN attribute is set from the first name that is a *)
(* column, whatever run.data holds.                                         *)
C8_Original ==
    (FixReturned /\ call.run[call.attr] = NaN /\ Hits(call.run, call.attr_names) # {}) =>
        /\ call.ret.exc = "none"
        /\ call.ret.run[call.attr] # NaN

FitReturned == pc = "returned" /\ call.fn = "fit_analysis"

(* C9: a call of fit_analysis with as many averaged points as fit           *)
(* parameters (dof = 0) raises nothing, sets chi_sq to 1 and carries out    *)
(* the fits and derived values that follow the chi-square.                  *)
C9_DegenerateFit ==
    (FitReturned /\ Len(call.run.avg_data) = linear_params) =>
        /\ call.ret.exc = "none"
        /\ call.ret.run.dof = 0
        /\ call.ret.run.chi_sq = 1
        /\ call.ret.run.fitted = Fitted

C9_Witness ==
    /\ FitReturned
    /\ Len(call.run.avg_data) = linear_params
    /\ call.ret.exc = "none"
    /\ call.ret.run.chi_sq = 1

----------------------------------------------------------------------------
(* The stored table over several executions: claims C2 and C3, under        *)
(* SpecHistory                                                              *)

SaveOver == pc \in {"done", "aborted_save"}
Labels(t) == Range(Index(t))
RunNames == {runs[i].name : i \in 1..Len(runs)}
RowsOf(t, n) == SelectSeq(t, LAMBDA r : r.name = n)

(* C2: once the save section is over, the stored table has the labels that  *)
(* were stored before together with the names of the runs of this           *)
(* execution, and has the row of each of these runs as just computed.       *)
C2_SaveUnion ==
    SaveOver =>
        /\ pkl.exists
        /\ Labels(pkl.t) = Labels(old_pkl.t) \cup RunNames
        /\ \A i \in 1..Len(runs) : \E j \in 1..Len(pkl.t) : pkl.t[j] = ResultRow(runs[i])

(* C3: once the save section is over, the rows stored before under a label  *)
(* that is no run name of this execution are stored as they were.           *)
C3_Frame ==
    SaveOver =>
        \A n \in Labels(old_pkl.t) \ RunNames : RowsOf(pkl.t, n) = RowsOf(old_pkl.t, n)

(* a table with a row of an earlier execution got a row of this one *)
C3_Witness ==
    /\ pc = "done"
    /\ old_pkl.exists
    /\ Labels(old_pkl.t) \ RunNames # {}
    /\ RunNames \ Labels(old_pkl.t) # {}
    /\ RunNames \subseteq Labels(pkl.t)

----------------------------------------------------------------------------
(* The chemical-potential root find of src/bulkvisctrap_class.py: claim C1, *)
(* under SpecTrap.  T, EF and barnu are whole Hz, betamu is a whole number, *)
(* Theta = T/EF is the pair <<T, EF>>, betabaromega = barnu/T is the pair   *)
(* <<barnu, T>>, and an optional argument is <<>> (None) or <<v>>.          *)

bracket_hi == 20000
bracket_lo == 300000

(* thousandths of (6 * integral over v of sqrt(v/pi) * eos_ufg(betamu - v))^(1/3), *)
(* integrated numerically from eos_ufg, for betamu = -24..5; below 1/2 of a  *)
(* thousandth under -24                                                      *)
trap_table ==
    <<1, 1, 1, 2, 2, 3, 5, 6, 9, 12, 17, 24, 33, 46, 65, 90, 126, 176, 246, 343, 479, 671,
      947, 1355, 1963, 2818, 3899, 5177, 6646, 8252>>

(* N_sigma, held as the thousandths of betabaromega * (6*N_sigma)^(1/3): the *)
(* weight is 2/betabaromega^3 * sqrt(v/pi), so this product is the tabulated *)
(* number whatever betabaromega is                                           *)
number_per_spin(betamu, betabaromega) ==
    IF betamu < 0 - 24 THEN 0 ELSE trap_table[betamu + 25]

(* T*betabaromega*(6*Ns)^(1/3) *)
FermiEnergy(T, betabaromega, Ns) == (T * Ns) \div 1000

thermo_trap(T, betamu, betabaromega) ==
    LET Ns == number_per_spin(betamu, betabaromega)
        EF == FermiEnergy(T, betabaromega, Ns)
    IN  [Ns |-> Ns, EF |-> EF, Theta |-> <<T, EF>>]

(* the whole betamu nearest inside each end of bracket=[20e3/T, -300e3/T] *)
BracketHigh(T) == bracket_hi \div T
BracketLow(T) == 0 - (bracket_lo \div T)
InBracket(T, betamu) == betamu * T <= bracket_hi /\ betamu * T >= 0 - bracket_lo

(* the function whose root is sought (line 160) *)
Residual(T, EF, betabaromega, x) ==
    EF - FermiEnergy(T, betabaromega, number_per_spin(x, betabaromega))

(* brentq between lo and hi, Residual >= 0 at lo and <= 0 at hi *)
RECURSIVE brentq(_, _, _, _, _)
brentq(T, EF, betabaromega, lo, hi) ==
    IF Residual(T, EF, betabaromega, lo) = 0 THEN lo
    ELSE IF Residual(T, EF, betabaromega, hi) = 0 THEN hi
    ELSE IF hi - lo <= 1 THEN lo
    ELSE LET mid == (lo + hi) \div 2
         IN  IF Residual(T, EF, betabaromega, mid) >= 0
             THEN brentq(T, EF, betabaromega, mid, hi)
             ELSE brentq(T, EF, betabaromega, lo, mid)

(* root_scalar with a bracket: ValueError unless the function changes sign   *)
(* between the ends of the bracket; guess is not used by the bracketing      *)
(* method.  The function falls as x grows, so it is positive at the upper    *)
(* end 20e3/T exactly if it is at BracketHigh(T), and negative at the lower  *)
(* end exactly if it is at BracketLow(T).                                    *)
find_betamu(T, EF, betabaromega, guess) ==
    LET fa == Residual(T, EF, betabaromega, BracketHigh(T))
        fb == Residual(T, EF, betabaromega, BracketLow(T))
    IN  IF (fa > 0 /\ fb > 0) \/ (fa < 0 /\ fb < 0)
        THEN [exc |-> "ValueError", root |-> Unset]
        ELSE [exc |-> "none",
              root |-> brentq(T, EF, betabaromega, BracketLow(T), BracketHigh(T))]

NoObject(e) == [exc |-> e, betamutrap |-> Unset, EF |-> Unset, Theta |-> <<>>]

(* BulkViscTrapToTF.__init__: T = EF*Theta, the guess divided by T (a       *)
(* TypeError when mutrap_guess is None, the default), the root find, and    *)
(* the EF and Theta recomputed by thermo_trap                               *)
BulkViscTrapToTF(Theta, EF, barnu, mutrap_guess) ==
    LET T == (EF * Theta[1]) \div Theta[2]
    IN  IF mutrap_guess = <<>> THEN NoObject("TypeError")
        ELSE LET betamutrap_guess == <<mutrap_guess[1], T>>
                 betabaromega == <<barnu, T>>
                 sol == find_betamu(T, EF, betabaromega, betamutrap_guess)
             IN  IF sol.exc # "none" THEN NoObject(sol.exc)
                 ELSE LET th == thermo_trap(T, sol.root, betabaromega)
                      IN  [exc |-> "none", betamutrap |-> sol.root, EF |-> th.EF,
                           Theta |-> th.Theta]

(* the requests: a temperature, and the Fermi energy that a whole betamu    *)
(* gives at that temperature                                                *)
TrapTemperatures == {5000, 46000}
TrapRoots == (0 - 10)..5
TrapFrequencies == {306, 375}
TrapGuesses == {<<>>, <<0 - 180000>>}

TrapCalls ==
    {[fn |-> "BulkViscTrapToTF",
      Theta |-> <<1000, number_per_spin(x, <<b, T>>)>>,
      EF |-> thermo_trap(T, x, <<b, T>>).EF,
      barnu |-> b, mutrap_guess |-> g, ret |-> Pending] :
        T \in TrapTemperatures, x \in TrapRoots, b \in TrapFrequencies, g \in TrapGuesses}

CallBulkViscTrapToTF ==
    /\ pc = "call"
    /\ call.fn = "BulkViscTrapToTF"
    /\ Return(BulkViscTrapToTF(call.Theta, call.EF, call.barnu, call.mutrap_guess))

InitTrap == InitCall(TrapCalls)
NextTrap == CallBulkViscTrapToTF
SpecTrap == InitTrap /\ [][NextTrap]_vars

TrapReturned == pc = "returned" /\ call.fn = "BulkViscTrapToTF"
RequestedT == (call.EF * call.Theta[1]) \div call.Theta[2]
RootInBracket ==
    \E x \in BracketLow(RequestedT)..BracketHigh(RequestedT) :
        thermo_trap(RequestedT, x, <<call.barnu, RequestedT>>).EF = call.EF

(* C1: constructing BulkViscTrapToTF for a requested Theta, EF and barnu    *)
(* whose root lies in the bracket raises nothing; the betamu found lies     *)
(* between -300e3/T and 20e3/T, gives the requested EF, and the EF and      *)
(* Theta stored in the object agree with the requested ones.                *)
C1_RoundTrip ==
    (TrapReturned /\ RootInBracket) =>
        /\ call.ret.exc = "none"
        /\ InBracket(RequestedT, call.ret.betamutrap)
        /\ thermo_trap(RequestedT, call.ret.betamutrap, <<call.barnu, RequestedT>>).EF = call.EF
        /\ call.ret.EF = call.EF
        /\ call.ret.Theta[1] * call.Theta[2] = call.ret.Theta[2] * call.Theta[1]

----------------------------------------------------------------------------
(* The choice of the analysis by the number of averaged points: claim C11,  *)
(* under SpecAnalysis                                                       *)

AnalysisFiles ==
    {f \in FilesWith({NoColumn}, {NoColumn}, TimeSets) :
        f.filename = "2024-04-04_C" /\ ~f.has_beta /\ f.freq # NaN /\ f.Vpp # NaN}

(* energies in kHz and atom numbers in thousands, all positive *)
Measurements ==
    [Times -> {[E |-> 10, N |-> 100], [E |-> 16, N |-> 100], [E |-> 16, N |-> 80]}]

AnalysisCalls ==
    [fn : {"analyse"},
     run : {[group_by_mean(Data(f)) EXCEPT !.meas = m] : f \in AnalysisFiles, m \in Measurements},
     ret : {Pending}]

CallAnalyse ==
    /\ pc = "call"
    /\ call.fn = "analyse"
    /\ Return(analyse(call.run))

InitAnalysis == InitCall(AnalysisCalls)
NextAnalysis == CallAnalyse
SpecAnalysis == InitAnalysis /\ [][NextAnalysis]_vars

AnalysisReturned == pc = "returned" /\ call.fn = "analyse"

(* C11: a run of exactly two averaged points is not curve-fit: its initial  *)
(* energy and atom number are those of the point with the smaller scan      *)
(* parameter, its heating and loss rate are the relative differences to the *)
(* point with the larger one over the difference of the scan parameter,     *)
(* and dof = 0, chi_sq = 1; every other run goes through fit_analysis.      *)
C11_TwoPointAnalysis ==
    AnalysisReturned =>
        IF Len(call.run.avg_data) = 2
        THEN /\ call.ret.exc = "none"
             /\ call.ret.run.fit_func = "none"
             /\ call.ret.run.dof = 0
             /\ call.ret.run.chi_sq = 1
             /\ \E i, j \in 1..2 :
                  LET ti == call.run.avg_data[i]
                      tj == call.run.avg_data[j]
                      first == call.run.meas[ti]
                      last == call.run.meas[tj]
                  IN  /\ ti < tj
                      /\ call.ret.run.Ei = first.E
                      /\ call.ret.run.N = first.N
                      /\ call.ret.run.heating =
                             ((last.E - first.E) * 1000000) \div (first.E * (tj - ti))
                      /\ call.ret.run.loss_rate =
                             ((last.N - first.N) * 1000000) \div (first.N * (tj - ti))
        ELSE /\ call.ret.run.fit_func = "linear"
             /\ call.ret.run.Ei \in {Unset, FromFit}
             /\ call.ret.run.heating \in {Unset, FromFit}

(* a run of two points that heated up and lost atoms *)
C11_Witness ==
    /\ AnalysisReturned
    /\ Len(call.run.avg_data) = 2
    /\ call.ret.exc = "none"
    /\ call.ret.run.fit_func = "none"
    /\ call.ret.run.heating > 0
    /\ call.ret.run.loss_rate < 0

----------------------------------------------------------------------------
(* The catalogue of fit functions of src/fit_functions.py: claim C12, under *)
(* SpecCatalogue.  data is a sequence of rows <<x, y>>; an entry returns    *)
(* the function (its name and its arguments after the first), the guess     *)
(* (<<>> for None, <<list>> for a list, values in hundredths) and           *)
(* param_names.                                                             *)

Abs(v) == IF v < 0 THEN 0 - v ELSE v
RECURSIVE SumY(_)
SumY(data) == IF data = <<>> THEN 0 ELSE data[1][2] + SumY(Tail(data))

(* data[np.abs(data[:,1]).argmax(),0]: argmax is the first place of the maximum *)
x_ofmax(data) ==
    LET k == CHOOSE i \in 1..Len(data) :
                 /\ \A j \in 1..Len(data) : Abs(data[j][2]) <= Abs(data[i][2])
                 /\ \A j \in 1..(i - 1) : Abs(data[j][2]) < Abs(data[i][2])
    IN  100 * data[k][1]
max_x(data) == 100 * MaxOf({data[i][1] : i \in 1..Len(data)})
min_x(data) == 100 * MinOf({data[i][1] : i \in 1..Len(data)})
max_y(data) == 100 * MaxOf({data[i][2] : i \in 1..Len(data)})
min_y(data) == 100 * MinOf({data[i][2] : i \in 1..Len(data)})
mean_y(data) == (100 * SumY(data)) \div Len(data)

Triple(name, args, guess, param_names) ==
    [func |-> [name |-> name, args |-> args], guess |-> guess, param_names |-> param_names]

(* the guess of the entries with a peak: lines 62, 79, 110, 127 *)
PeakGuess(data) ==
    <<max_y(data) - mean_y(data), x_ofmax(data), (max_x(data) - min_x(data)) \div 2,
      mean_y(data)>>

Linear(data) == Triple("linear", <<"m", "b">>, <<>>, <<"m", "b">>)

Parabola(data) ==
    Triple("parabola", <<"A", "x0", "C">>,
           <<<<max_y(data) - mean_y(data), x_ofmax(data), mean_y(data)>>>>,
           <<"A", "x0", "C">>)

Sqrt(data) ==
    Triple("sqrt", <<"A", "x0">>, <<<<max_y(data) - min_y(data), 0>>>>, <<"A", "x0">>)

Gaussian(data) ==
    Triple("gaussian", <<"A", "x0", "sigma", "C">>, <<PeakGuess(data)>>,
           <<"A", "x0", "sigma", "C">>)

Lorentzian(data) ==
    Triple("lorentzian", <<"A", "x0", "sigma", "C">>, <<PeakGuess(data)>>,
           <<"A", "x0", "sigma", "C">>)

Sin(data) ==
    Triple("sin", <<"A", "omega", "phi", "C">>,
           <<<<max_y(data) - mean_y(data), 100, 0, mean_y(data)>>>>,
           <<"A", "omega", "phi", "C">>)

Sinc(data) ==
    Triple("sinc", <<"A", "x0", "sigma", "C">>, <<PeakGuess(data)>>,
           <<"A", "x0", "sigma", "C">>)

Sinc2(data) ==
    Triple("sinc2", <<"A", "x0", "sigma", "C">>, <<PeakGuess(data)>>,
           <<"A", "x0", "sigma", "C">>)

TrapFreq(data) ==
    Triple("TrapFreq", <<"A", "b", "l", "x0", "C", "D">>,
           <<<<1000000, 5, 2000, 0 - 200, 10000, 0 - 10>>>>,
           <<"Amplitude", "b", "l", "Center", "Offset", "Linear Slope">>)

TrapFreq2(data) ==
    Triple("TrapFreq2", <<"A", "b", "l", "x0", "C", "D">>,
           <<<<1000000, 5, 2000, 0 - 200, 10000, 0 - 10>>>>,
           <<"Amplitude", "b", "l", "Center", "Offset">>)

RabiFreq(data) ==
    Triple("RabiFreq", <<"A", "b", "x0", "C">>, <<<<100, 100, 100, 0>>>>,
           <<"Amplitdue", "b", "Center", "Offset">>)

Expontial(data) ==
    Triple("Exponential", <<"A", "sigma">>, <<<<max_x(data) - min_x(data), 100>>>>,
           <<"Amplitude", "sigma">>)

RabiLine(data) ==
    Triple("RabiLine", <<"b", "l", "m", "A", "s", "j", "k", "p">>,
           <<<<100, 100, 100, 100, 100, 100, 100, 0>>>>,
           <<"b", "l", "m", "A", "s", "j", "k", "p">>)

ErfcFit(data) ==
    Triple("ErfcFit", <<"A", "x0", "b", "C">>, <<<<100, 100, 100, 0>>>>,
           <<"Amp", "Center", "b", "Offset">>)

SinplusCos(data) ==
    Triple("SinplusCos", <<"omega", "A", "B", "C">>, <<<<100, 100, 100, 0>>>>,
           <<"Sin Amp", "Cos Amp", "Offset">>)

FixedSin(data) ==
    Triple("FixedSin", <<"A", "p", "C">>, <<<<100, 100, 0>>>>,
           <<"Amplitude", "phase", "offset">>)

FixedSin5kHz(data) ==
    Triple("FixedSin5kHz", <<"A", "p", "C">>, <<<<100, 100, 0>>>>,
           <<"Amplitude", "phase", "offset">>)

Entries ==
    {"Linear", "Parabola", "Sqrt", "Gaussian", "Lorentzian", "Sin", "Sinc", "Sinc2",
     "TrapFreq", "TrapFreq2", "RabiFreq", "Expontial", "RabiLine", "ErfcFit", "SinplusCos",
     "FixedSin", "FixedSin5kHz"}

Catalogue(entry, data) ==
    CASE entry = "Linear" -> Linear(data)
      [] entry = "Parabola" -> Parabola(data)
      [] entry = "Sqrt" -> Sqrt(data)
      [] entry = "Gaussian" -> Gaussian(data)
      [] entry = "Lorentzian" -> Lorentzian(data)
      [] entry = "Sin" -> Sin(data)
      [] entry = "Sinc" -> Sinc(data)
      [] entry = "Sinc2" -> Sinc2(data)
      [] entry = "TrapFreq" -> TrapFreq(data)
      [] entry = "TrapFreq2" -> TrapFreq2(data)
      [] entry = "RabiFreq" -> RabiFreq(data)
      [] entry = "Expontial" -> Expontial(data)
      [] entry = "RabiLine" -> RabiLine(data)
      [] entry = "ErfcFit" -> ErfcFit(data)
      [] entry = "SinplusCos" -> SinplusCos(data)
      [] entry = "FixedSin" -> FixedSin(data)
      [] entry = "FixedSin5kHz" -> FixedSin5kHz(data)

(* the traces to fit: one or two rows <<x, y>> *)
TracePoints == {0, 1} \X {0 - 4, 2}
Traces == {<<p>> : p \in TracePoints} \cup {<<p, q>> : p \in TracePoints, q \in TracePoints}

CatalogueCalls == [fn : {"fit_functions"}, entry : Entries, data : Traces, ret : {Pending}]

CallCatalogue ==
    /\ pc = "call"
    /\ call.fn = "fit_functions"
    /\ Return(Catalogue(call.entry, call.data))

InitCatalogue == InitCall(CatalogueCalls)
NextCatalogue == CallCatalogue
SpecCatalogue == InitCatalogue /\ [][NextCatalogue]_vars

CatalogueReturned == pc = "returned" /\ call.fn = "fit_functions"

(* C12: every entry of the catalogue returns param_names with exactly one   *)
(* name for each fit parameter of the returned function (its arguments      *)
(* after the first), and a guess that is None or has exactly that many      *)
(* values.                                                                  *)
C12_Catalogue ==
    CatalogueReturned =>
        /\ Len(call.ret.param_names) = Len(call.ret.func.args)
        /\ \/ call.ret.guess = <<>>
           \/ Len(call.ret.guess[1]) = Len(call.ret.func.args)

====
